---------------------------- MODULE Spec2Model ----------------------------
(***************************************************************************)
(* A model of the modal terminal editor of src/main.py (class            *)
(* SimpleEditor).  A Python str is a sequence of one-character strings;   *)
(* the editor's fields keep their names.  The event loop run() alternates *)
(* draw() and one key handler; pc records which of the two comes next.    *)
(***************************************************************************)
EXTENDS Integers, Sequences, FiniteSets, TLC

(***************************************************************************)
(* Bounds of the exploration.                                              *)
(***************************************************************************)
MaxLines == 2        \* Enter is explored while the buffer has fewer lines
MaxChars == 2        \* printable keys are explored while the buffer has fewer characters
MaxFileLen == 1      \* length of the text of a loaded file
MaxMouseX == 1       \* largest pointer column returned by getmouse
MaxPartial == 3      \* length of the partial inputs given to get_suggestion

\* the heights stdscr.getmaxyx() may return, at each call: the terminal can
\* be resized between any two calls
Heights == {3, 4}

(***************************************************************************)
(* Strings.                                                                *)
(***************************************************************************)
Min(S) == CHOOSE x \in S : \A y \in S : x <= y

Max(S) == CHOOSE x \in S : \A y \in S : x >= y

\* str.lower() on one character, for the characters the model types
LowerChar(c) ==
    CASE c = "W" -> "w"
      [] c = "Q" -> "q"
      [] c = "N" -> "n"
      [] OTHER -> c

\* str.lower()
Lower(s) == [i \in 1..Len(s) |-> LowerChar(s[i])]

\* the only whitespace a printable key (32..126) can put in a string
IsSpace(c) == c = " "

\* str.strip()
Strip(s) ==
    LET keep == {i \in 1..Len(s) : ~IsSpace(s[i])}
    IN  IF keep = {} THEN <<>> ELSE SubSeq(s, Min(keep), Max(keep))

\* str.startswith()
StartsWith(s, p) == Len(p) <= Len(s) /\ SubSeq(s, 1, Len(p)) = p

\* s[:i] and s[i:] with a Python index 0 <= i <= len(s)
Take(s, i) == SubSeq(s, 1, i)

Drop(s, i) == SubSeq(s, i + 1, Len(s))

\* str.splitlines() for texts whose only line boundary is "\n"
RECURSIVE SplitLines(_)
SplitLines(t) ==
    IF t = <<>> THEN <<>>
    ELSE LET nl == {i \in 1..Len(t) : t[i] = "\n"}
         IN  IF nl = {} THEN <<t>>
             ELSE <<Take(t, Min(nl) - 1)>> \o SplitLines(Drop(t, Min(nl)))

\* all sequences over S of length at most n
RECURSIVE SeqsUpTo(_, _)
SeqsUpTo(S, n) ==
    IF n = 0 THEN {<<>>}
    ELSE LET shorter == SeqsUpTo(S, n - 1)
         IN  shorter \cup {Append(s, c) : s \in shorter, c \in S}

\* number of characters in a list of lines
RECURSIVE TotalChars(_)
TotalChars(buf) ==
    IF buf = <<>> THEN 0 ELSE Len(Head(buf)) + TotalChars(Tail(buf))

(***************************************************************************)
(* Literals of the program.                                                *)
(***************************************************************************)
None == <<>>     \* a filename that is None (or ''): falsy

s_write == <<"w", "r", "i", "t", "e">>

s_quit == <<"q", "u", "i", "t">>

s_write_quit == <<"w", "r", "i", "t", "e", "+", "q", "u", "i", "t">>

s_wq == <<"w", "q">>

s_x == <<"x">>

s_w == <<"w">>

s_q == <<"q">>

s_clear == <<"c", "l", "e", "a", "r">>

\* self.commands
commands == <<s_write, s_quit, s_write_quit, s_wq, s_x, s_clear>>

\* messages: a literal piece followed by the characters of the formatted value
MsgNone == <<>>

MsgNewFile(fn) == <<"New file: ">> \o fn

MsgNoFilename == <<"No filename specified">>

MsgSaved(fn) == <<"Saved ">> \o fn

MsgSaveError(e) == <<"Error saving file: ">> \o e

MsgCancelled == <<"Command mode cancelled">>

MsgCleared == <<"Buffer cleared">>

MsgUnknown(cmd) == <<"Unknown command: ">> \o cmd


(***************************************************************************)
(* Inputs.                                                                 *)
(***************************************************************************)
\* printable keys pressed in Edit mode
EditKeys == {"a"}

\* characters of a loaded file
FileChars == {"b", "\n"}

\* file contents load_file may read
FileTexts == SeqsUpTo(FileChars, MaxFileLen)

\* the filename given on the command line, when one is given
ArgFilename == <<"f">>

\* str(e) of an exception raised while saving
IOErrorText == <<"e">>

\* command lines typed in Command mode, character by character; every
\* prefix of one of them can be typed, edited, completed and submitted
CmdInputs ==
    { <<"q">>, <<"Q">>, <<"w">>, <<"x">>, <<"c">>, <<"s">>,
      <<"w", "q">>, <<" ", "w", "q">>,
      <<"n", "a", "m", "e", " ", "f">>,
      <<"z", " ", "w">>, <<"w", " ", "z">> }

CmdPrefixes == UNION {{Take(s, i) : i \in 0..Len(s)} : s \in CmdInputs}

\* printable keys pressed in Command mode
CmdKeys == UNION {{s[i] : i \in 1..Len(s)} : s \in CmdInputs}

(***************************************************************************)
(* State.                                                                  *)
(***************************************************************************)
VARIABLES
    filename,            \* self.filename
    buffer,              \* self.buffer: the list of lines
    cursor_y,            \* self.cursor_y: 0-based row
    cursor_x,            \* self.cursor_x: 0-based column
    offset_y,            \* self.offset_y: first row drawn
    command_mode,        \* self.command_mode
    command_buffer,      \* self.command_buffer
    message,             \* self.message
    message_is_error,    \* self.message_is_error
    current_suggestion,  \* self.current_suggestion
    pc,                  \* position in run(): "draw", "getch" or "exit"
    partial,             \* argument of a direct call of get_suggestion
    suggestion           \* its result

vars == <<filename, buffer, cursor_y, cursor_x, offset_y, command_mode,
          command_buffer, message, message_is_error, current_suggestion,
          pc, partial, suggestion>>

\* buffer[cursor_y] with the Python row index
Line(buf, y) == buf[y + 1]

(***************************************************************************)
(* get_suggestion                                                          *)
(***************************************************************************)
get_suggestion(p) ==
    IF p = <<>> THEN <<>>
    ELSE LET hits == {i \in 1..Len(commands) : StartsWith(commands[i], Lower(p))}
         IN  IF hits = {} THEN <<>> ELSE commands[Min(hits)]

(***************************************************************************)
(* __init__ and load_file                                                  *)
(***************************************************************************)
\* the buffer load_file builds from the text of an existing file
LoadedBuffer(text) ==
    IF SplitLines(text) = <<>> THEN << <<>> >> ELSE SplitLines(text)

InitFields ==
    /\ cursor_y = 0
    /\ cursor_x = 0
    /\ offset_y = 0
    /\ command_mode = FALSE
    /\ command_buffer = <<>>
    /\ message_is_error = FALSE
    /\ current_suggestion = <<>>

InitFile ==
    \/ /\ filename = None
       /\ buffer = << <<>> >>
       /\ message = MsgNone
    \/ /\ filename = ArgFilename
       /\ \/ \E text \in FileTexts :
                /\ buffer = LoadedBuffer(text)
                /\ message = MsgNone
          \/ /\ buffer = << <<>> >>
             /\ message = MsgNewFile(filename)

Init ==
    /\ InitFields
    /\ InitFile
    /\ pc = "draw"
    /\ partial = <<>>
    /\ suggestion = <<>>

(***************************************************************************)
(* The buffer operations of handle_edit_mode, as functions of the buffer   *)
(* and the cursor.  Each returns the new buffer and cursor.                *)
(***************************************************************************)
Pos(buf, y, x) == [buffer |-> buf, cursor_y |-> y, cursor_x |-> x]

\* list.pop(i) and list.insert(i, e) with a Python index i
PopAt(buf, i) == Take(buf, i) \o Drop(buf, i + 1)

InsertAt(buf, i, e) == Take(buf, i) \o <<e>> \o Drop(buf, i)

SetLine(buf, y, line) == [buf EXCEPT ![y + 1] = line]

\* backspace removing the character under the cursor, not the one before it
BackspaceAtCursor(buf, y, x) ==
    IF x > 0
    THEN Pos(SetLine(buf, y, Take(Line(buf, y), x) \o Drop(Line(buf, y), x + 1)),
             y, x - 1)
    ELSE IF y > 0
    THEN Pos(PopAt(SetLine(buf, y - 1, Line(buf, y - 1) \o Line(buf, y)), y),
             y - 1, Len(Line(buf, y - 1)))
    ELSE Pos(buf, y, x)

Backspace(buf, y, x) ==
    IF x > 0
    THEN Pos(SetLine(buf, y, Take(Line(buf, y), x - 1) \o Drop(Line(buf, y), x)),
             y, x - 1)
    ELSE IF y > 0
    THEN Pos(PopAt(SetLine(buf, y - 1, Line(buf, y - 1) \o Line(buf, y)), y),
             y - 1, Len(Line(buf, y - 1)))
    ELSE Pos(buf, y, x)

\* Enter without the truncation of the current line
EnterKeepsLine(buf, y, x) ==
    Pos(InsertAt(buf, y + 1, Drop(Line(buf, y), x)), y + 1, 0)

Enter(buf, y, x) ==
    Pos(InsertAt(SetLine(buf, y, Take(Line(buf, y), x)), y + 1,
                 Drop(Line(buf, y), x)),
        y + 1, 0)

MoveLeft(buf, y, x) == IF x > 0 THEN Pos(buf, y, x - 1) ELSE Pos(buf, y, x)

MoveRight(buf, y, x) ==
    IF x < Len(Line(buf, y)) THEN Pos(buf, y, x + 1) ELSE Pos(buf, y, x)

\* KEY_UP without the min() on the column
MoveUpUnclamped(buf, y, x) ==
    IF y > 0 THEN Pos(buf, y - 1, x) ELSE Pos(buf, y, x)

MoveUp(buf, y, x) ==
    IF y > 0
    THEN Pos(buf, y - 1, Min({x, Len(Line(buf, y - 1))}))
    ELSE Pos(buf, y, x)

MoveDown(buf, y, x) ==
    IF y < Len(buf) - 1
    THEN Pos(buf, y + 1, Min({x, Len(Line(buf, y + 1))}))
    ELSE Pos(buf, y, x)

\* a pointer event at screen cell (mx, my) on a terminal of h rows
Mouse(buf, y, x, off, h, mx, my) ==
    IF my < h - 2
    THEN LET row == Min({Max({0, my + off}), Len(buf) - 1})
         IN  Pos(buf, row, Min({Max({0, mx}), Len(Line(buf, row))}))
    ELSE Pos(buf, y, x)

InsertChar(buf, y, x, c) ==
    Pos(SetLine(buf, y, Take(Line(buf, y), x) \o <<c>> \o Drop(Line(buf, y), x)),
        y, x + 1)

\* draw() scrolling down one row short
NewOffsetOneShort(cy, off, h) ==
    IF cy - off >= h - 2 THEN cy - h + 2
    ELSE IF cy < off THEN cy
    ELSE off

\* the offset draw() leaves, from the cursor row, the offset and the height
NewOffset(cy, off, h) ==
    IF cy - off >= h - 2 THEN cy - h + 3
    ELSE IF cy < off THEN cy
    ELSE off

(***************************************************************************)
(* draw                                                                    *)
(***************************************************************************)
Draw ==
    /\ pc = "draw"
    /\ \E h \in Heights : offset_y' = NewOffset(cursor_y, offset_y, h)
    /\ pc' = "getch"
    /\ UNCHANGED <<filename, buffer, cursor_y, cursor_x, command_mode,
                   command_buffer, message, message_is_error,
                   current_suggestion, partial, suggestion>>

(***************************************************************************)
(* handle_edit_mode                                                        *)
(***************************************************************************)
\* the handler clearing every message, errors too
EditMessageClearsErrors(msg, is_error) == MsgNone

\* the message after the handler's first lines
EditMessage(msg, is_error) == IF ~is_error THEN MsgNone ELSE msg

EditIsError(is_error) == IF ~is_error THEN FALSE ELSE is_error

\* what every call of handle_edit_mode does before it looks at the key
EditKey ==
    /\ pc = "getch"
    /\ ~command_mode
    /\ message' = EditMessage(message, message_is_error)
    /\ message_is_error' = EditIsError(message_is_error)
    /\ pc' = "draw"
    /\ UNCHANGED <<filename, offset_y, partial, suggestion>>

\* a key that leaves Edit mode's other fields alone and edits the buffer
EditBuffer(r) ==
    /\ EditKey
    /\ buffer' = r.buffer
    /\ cursor_y' = r.cursor_y
    /\ cursor_x' = r.cursor_x
    /\ UNCHANGED <<command_mode, command_buffer, current_suggestion>>

EditF2 ==
    /\ EditKey
    /\ command_mode' = TRUE
    /\ command_buffer' = <<>>
    /\ current_suggestion' = <<>>
    /\ UNCHANGED <<buffer, cursor_y, cursor_x>>

EditBackspace == EditBuffer(Backspace(buffer, cursor_y, cursor_x))

EditEnter ==
    /\ Len(buffer) < MaxLines
    /\ EditBuffer(Enter(buffer, cursor_y, cursor_x))

EditLeft == EditBuffer(MoveLeft(buffer, cursor_y, cursor_x))

EditRight == EditBuffer(MoveRight(buffer, cursor_y, cursor_x))

EditUp == EditBuffer(MoveUp(buffer, cursor_y, cursor_x))

EditDown == EditBuffer(MoveDown(buffer, cursor_y, cursor_x))

EditMouse ==
    \E h \in Heights :
        \E mx \in 0..MaxMouseX, my \in 0..(h - 1) :
            EditBuffer(Mouse(buffer, cursor_y, cursor_x, offset_y, h, mx, my))

\* KEY_MOUSE with getmouse raising curses.error, or any key no branch takes
EditIgnored == EditBuffer(Pos(buffer, cursor_y, cursor_x))

EditPrintable ==
    /\ TotalChars(buffer) < MaxChars
    /\ \E c \in EditKeys : EditBuffer(InsertChar(buffer, cursor_y, cursor_x, c))

(***************************************************************************)
(* save_file                                                               *)
(***************************************************************************)
\* what a call of save_file can come to: no filename, written, or open/write
\* raising.  The file system is outside the state: only the outcome is kept.
SaveOutcomes(fn) == IF fn = None THEN {"nofile"} ELSE {"saved", "ioerror"}

SaveMessage(fn, outcome) ==
    CASE outcome = "nofile" -> MsgNoFilename
      [] outcome = "saved" -> MsgSaved(fn)
      [] outcome = "ioerror" -> MsgSaveError(IOErrorText)

SaveIsError(outcome) == outcome # "saved"

\* save_file returning True on every path
SaveAlwaysTrue(outcome) == TRUE

\* the value save_file returns
SaveReturns(outcome) == outcome = "saved"

(***************************************************************************)
(* execute_command                                                         *)
(***************************************************************************)
QuitCommands == {s_q, s_quit}

WriteCommands == {s_w, s_write}

WriteQuitCommands == {s_write_quit, s_wq, s_x}

\* cmd = command.strip().lower()
Normalize(command) == Lower(Strip(command))

\* the branch of execute_command that a command takes
Branch(command) ==
    LET cmd == Normalize(command)
    IN  CASE cmd \in QuitCommands -> "quit"
          [] cmd \in WriteCommands -> "write"
          [] cmd \in WriteQuitCommands -> "writequit"
          [] cmd = s_clear -> "clear"
          [] OTHER -> "unknown"

ExecQuit ==
    /\ pc' = "exit"
    /\ UNCHANGED <<buffer, cursor_y, cursor_x, command_mode, message,
                   message_is_error>>

\* the write branch resetting the cursor as the clear branch does
ExecWriteResetsCursor ==
    \E outcome \in SaveOutcomes(filename) :
        /\ message' = SaveMessage(filename, outcome)
        /\ message_is_error' = SaveIsError(outcome)
        /\ command_mode' = FALSE
        /\ pc' = "draw"
        /\ cursor_x' = 0
        /\ cursor_y' = 0
        /\ UNCHANGED buffer

ExecWrite ==
    \E outcome \in SaveOutcomes(filename) :
        /\ message' = SaveMessage(filename, outcome)
        /\ message_is_error' = SaveIsError(outcome)
        /\ command_mode' = FALSE
        /\ pc' = "draw"
        /\ UNCHANGED <<buffer, cursor_y, cursor_x>>

\* the writequit branch leaving Command mode as the write branch does
ExecWriteQuitLeavesMode ==
    \E outcome \in SaveOutcomes(filename) :
        /\ message' = SaveMessage(filename, outcome)
        /\ message_is_error' = SaveIsError(outcome)
        /\ command_mode' = FALSE
        /\ pc' = IF SaveReturns(outcome) THEN "exit" ELSE "draw"
        /\ UNCHANGED <<buffer, cursor_y, cursor_x>>

ExecWriteQuit ==
    \E outcome \in SaveOutcomes(filename) :
        /\ message' = SaveMessage(filename, outcome)
        /\ message_is_error' = SaveIsError(outcome)
        /\ pc' = IF SaveReturns(outcome) THEN "exit" ELSE "draw"
        /\ UNCHANGED <<buffer, cursor_y, cursor_x, command_mode>>

\* self.buffer = [] in place of ['']
ClearedBufferEmptyList == <<>>

\* the buffer the clear command leaves
ClearedBuffer == << <<>> >>

\* the clear branch without command_mode = False
ExecClearStaysInCommandMode ==
    /\ buffer' = ClearedBuffer
    /\ cursor_x' = 0
    /\ cursor_y' = 0
    /\ message' = MsgCleared
    /\ message_is_error' = FALSE
    /\ pc' = "draw"
    /\ UNCHANGED command_mode

ExecClear ==
    /\ buffer' = ClearedBuffer
    /\ cursor_x' = 0
    /\ cursor_y' = 0
    /\ command_mode' = FALSE
    /\ message' = MsgCleared
    /\ message_is_error' = FALSE
    /\ pc' = "draw"

ExecUnknown(command) ==
    /\ message' = MsgUnknown(Normalize(command))
    /\ message_is_error' = TRUE
    /\ pc' = "draw"
    /\ UNCHANGED <<buffer, cursor_y, cursor_x, command_mode>>

execute_command(command) ==
    /\ CASE Branch(command) = "quit" -> ExecQuit
         [] Branch(command) = "write" -> ExecWrite
         [] Branch(command) = "writequit" -> ExecWriteQuit
         [] Branch(command) = "clear" -> ExecClear
         [] OTHER -> ExecUnknown(command)
    /\ UNCHANGED <<filename, offset_y, command_buffer, current_suggestion,
                   partial, suggestion>>

(***************************************************************************)
(* handle_command_mode                                                     *)
(***************************************************************************)
CmdKey ==
    /\ pc = "getch"
    /\ command_mode

\* the fields no branch of handle_command_mode other than Enter touches
CmdFrame ==
    /\ pc' = "draw"
    /\ UNCHANGED <<filename, buffer, cursor_y, cursor_x, offset_y, partial,
                   suggestion>>

\* cancelling without command_buffer = ''
CmdF2KeepsInput ==
    /\ CmdKey
    /\ CmdFrame
    /\ command_mode' = FALSE
    /\ message' = MsgCancelled
    /\ message_is_error' = FALSE
    /\ UNCHANGED <<command_buffer, current_suggestion>>

CmdF2 ==
    /\ CmdKey
    /\ CmdFrame
    /\ command_mode' = FALSE
    /\ command_buffer' = <<>>
    /\ current_suggestion' = <<>>
    /\ message' = MsgCancelled
    /\ message_is_error' = FALSE

\* backspace without the recomputation of the suggestion
CmdBackspaceStale ==
    /\ CmdKey
    /\ CmdFrame
    /\ IF command_buffer # <<>>
       THEN command_buffer' = Take(command_buffer, Len(command_buffer) - 1)
       ELSE UNCHANGED command_buffer
    /\ UNCHANGED <<current_suggestion, command_mode, message, message_is_error>>

CmdBackspace ==
    /\ CmdKey
    /\ CmdFrame
    /\ IF command_buffer # <<>>
       THEN /\ command_buffer' = Take(command_buffer, Len(command_buffer) - 1)
            /\ current_suggestion' = get_suggestion(command_buffer')
       ELSE UNCHANGED <<command_buffer, current_suggestion>>
    /\ UNCHANGED <<command_mode, message, message_is_error>>

CmdEnter ==
    /\ CmdKey
    /\ execute_command(command_buffer)

CmdTab ==
    /\ CmdKey
    /\ CmdFrame
    /\ IF current_suggestion # <<>>
       THEN /\ command_buffer' = current_suggestion
            /\ current_suggestion' = get_suggestion(command_buffer')
       ELSE UNCHANGED <<command_buffer, current_suggestion>>
    /\ UNCHANGED <<command_mode, message, message_is_error>>

CmdPrintable ==
    /\ CmdKey
    /\ CmdFrame
    /\ \E c \in CmdKeys :
          /\ Append(command_buffer, c) \in CmdPrefixes
          /\ command_buffer' = Append(command_buffer, c)
    /\ current_suggestion' = get_suggestion(command_buffer')
    /\ UNCHANGED <<command_mode, message, message_is_error>>

\* any key no branch takes: arrows, KEY_MOUSE, ...
CmdIgnored ==
    /\ CmdKey
    /\ CmdFrame
    /\ UNCHANGED <<command_mode, command_buffer, current_suggestion, message,
                   message_is_error>>

(***************************************************************************)
(* run                                                                     *)
(***************************************************************************)
Next ==
    \/ Draw
    \/ EditF2
    \/ EditBackspace
    \/ EditEnter
    \/ EditLeft
    \/ EditRight
    \/ EditUp
    \/ EditDown
    \/ EditMouse
    \/ EditIgnored
    \/ EditPrintable
    \/ CmdF2
    \/ CmdBackspace
    \/ CmdEnter
    \/ CmdTab
    \/ CmdPrintable
    \/ CmdIgnored

Spec == Init /\ [][Next]_vars

(***************************************************************************)
(* Direct calls of get_suggestion on bounded inputs.                       *)
(***************************************************************************)
PartialChars == {"w", "W", "q", "r", "n", "a", "x"}

PartialInputs == SeqsUpTo(PartialChars, MaxPartial)

InitSuggest ==
    /\ InitFields
    /\ filename = None
    /\ buffer = << <<>> >>
    /\ message = MsgNone
    /\ pc = "draw"
    /\ partial = <<>>
    /\ suggestion = get_suggestion(<<>>)

Suggest ==
    /\ \E p \in PartialInputs :
          /\ partial' = p
          /\ suggestion' = get_suggestion(p)
    /\ UNCHANGED <<filename, buffer, cursor_y, cursor_x, offset_y,
                   command_mode, command_buffer, message, message_is_error,
                   current_suggestion, pc>>

NextSuggest == Suggest

SpecSuggest == InitSuggest /\ [][NextSuggest]_vars

(***************************************************************************)
(* Properties.                                                             *)
(***************************************************************************)

\* C1: in every reachable state the buffer holds at least one line.
C1_BufferNeverEmpty == Len(buffer) >= 1

\* a clear command has just been executed on a buffer, leaving one empty line
C1_Witness ==
    /\ pc = "draw"
    /\ message = MsgCleared
    /\ buffer = << <<>> >>
    /\ Branch(command_buffer) = "clear"

\* C2: in every reachable state the cursor is inside the buffer:
\* 0 <= cursor_y < len(buffer) and 0 <= cursor_x <= len(buffer[cursor_y]).
C2_CursorInBuffer ==
    /\ 0 <= cursor_y
    /\ cursor_y < Len(buffer)
    /\ 0 <= cursor_x
    /\ cursor_x <= Len(Line(buffer, cursor_y))

\* the cursor sits at the end of the first line, which is shorter than the
\* line below it: where an Up move from the end of that line is clamped to
C2_Witness ==
    /\ pc = "draw"
    /\ ~command_mode
    /\ Len(buffer) = 2
    /\ cursor_y = 0
    /\ Len(Line(buffer, 0)) < Len(Line(buffer, 1))
    /\ cursor_x = Len(Line(buffer, 0))

\* the step handles Enter in Command mode with a command line whose
\* branch of execute_command is b
Submitted(b) ==
    /\ pc = "getch"
    /\ command_mode
    /\ Branch(command_buffer) = b
    /\ CmdEnter

\* the step submits a command that takes the quit branch
QuitSubmitted == Submitted("quit")

\* the step submits a command that takes the writequit branch
WriteQuitSubmitted == Submitted("writequit")

\* the save made by the step succeeded
SaveSucceeded == message' = MsgSaved(filename) /\ ~message_is_error'

\* C3: a step terminates the process exactly when it submits, in Command
\* mode, a command that resolves to quit, or one that resolves to writequit
\* and whose save succeeds; no other step terminates it.
C3_TerminatesOnlyOnQuit ==
    [][ (pc' = "exit") <=>
        (QuitSubmitted \/ (WriteQuitSubmitted /\ SaveSucceeded)) ]_vars

\* the process has terminated by a writequit whose save succeeded
C3_Witness ==
    /\ pc = "exit"
    /\ Branch(command_buffer) = "writequit"
    /\ message = MsgSaved(filename)

\* what a failed writequit leaves alone
C4_StaysInCommandMode ==
    /\ pc' = "draw"
    /\ command_mode'
    /\ buffer' = buffer
    /\ cursor_y' = cursor_y
    /\ cursor_x' = cursor_x
    /\ message_is_error'

\* C4 as stated: a writequit whose save fails, for want of a filename or
\* otherwise, does not terminate, stays in Command mode, leaves buffer and
\* cursor alone and sets the error status "No filename specified".
C4_Original ==
    [][ (WriteQuitSubmitted /\ ~SaveSucceeded) =>
        (C4_StaysInCommandMode /\ message' = MsgNoFilename) ]_vars

\* C4 as amended: a writequit whose save fails does not terminate, stays in
\* Command mode, leaves buffer and cursor alone and sets an error status:
\* "No filename specified" when no filename is set, where the save always
\* fails, and "Error saving file: <reason>" when writing the file fails.
C4_FailedWriteQuit ==
    [][ /\ (WriteQuitSubmitted /\ filename = None) =>
             (C4_StaysInCommandMode /\ message' = MsgNoFilename)
        /\ (WriteQuitSubmitted /\ filename # None /\ ~SaveSucceeded) =>
             (C4_StaysInCommandMode /\ message' = MsgSaveError(IOErrorText))
      ]_vars

\* a writequit has just failed for want of a filename, on a buffer with text
C4_Witness ==
    /\ pc = "draw"
    /\ command_mode
    /\ filename = None
    /\ Branch(command_buffer) = "writequit"
    /\ message = MsgNoFilename
    /\ message_is_error
    /\ TotalChars(buffer) > 0
    /\ cursor_x > 0

\* C5 as stated: a write whose save fails keeps Command mode, with an error
\* status and the buffer unchanged; Edit mode is entered only when the save
\* succeeded.
C5_FailedWriteStaysInCommandMode ==
    [][ Submitted("write") =>
        IF SaveSucceeded
        THEN ~command_mode'
        ELSE command_mode' /\ message_is_error' /\ buffer' = buffer ]_vars

(***************************************************************************)
(* The command table of the specification: canonical names and aliases,    *)
(* and the first token of a command line.                                  *)
(***************************************************************************)
s_save == <<"s", "a", "v", "e">>

s_s == <<"s">>

s_sq == <<"s", "q">>

s_savequit == <<"s", "a", "v", "e", "q", "u", "i", "t">>

s_writequit == <<"w", "r", "i", "t", "e", "q", "u", "i", "t">>

s_name == <<"n", "a", "m", "e">>

s_filename == <<"f", "i", "l", "e", "n", "a", "m", "e">>

s_n == <<"n">>

TableWrite == {s_write, s_w, s_save, s_s}

TableQuit == {s_quit, s_q}

TableWriteQuit == {s_writequit, s_wq, s_sq, s_savequit, s_x}

TableClear == {s_clear}

TableName == {s_name, s_filename, s_n}

TableAll == TableWrite \cup TableQuit \cup TableWriteQuit \cup TableClear \cup TableName

\* the words of a line: maximal runs of characters other than whitespace
RECURSIVE Words(_)
Words(line) ==
    LET t == Strip(line)
        sp == {i \in 1..Len(t) : IsSpace(t[i])}
    IN  IF t = <<>> THEN <<>>
        ELSE IF sp = {} THEN <<t>>
        ELSE <<Take(t, Min(sp) - 1)>> \o Words(Drop(t, Min(sp)))

\* the lowercased command token of a line, empty when the line has no word
Token(line) == IF Words(line) = <<>> THEN <<>> ELSE Lower(Words(line)[1])

\* the step handles Enter in Command mode on the current command line
EnterStep ==
    /\ pc = "getch"
    /\ command_mode
    /\ CmdEnter

\* the parts of the editor a command that only reports leaves alone
BufferAndCursorUnchanged ==
    /\ buffer' = buffer
    /\ cursor_y' = cursor_y
    /\ cursor_x' = cursor_x

\* C6 as stated: submitting a line whose command token is no recognized
\* command or alias sets the error status "Unknown command: <token>", keeps
\* Command mode and command_input, and leaves buffer, cursor and filename.
C6_UnknownCommandReportsToken ==
    [][ (Token(command_buffer) \notin TableAll /\ EnterStep) =>
        /\ message' = MsgUnknown(Token(command_buffer))
        /\ message_is_error'
        /\ command_mode'
        /\ command_buffer' = command_buffer
        /\ BufferAndCursorUnchanged
        /\ filename' = filename ]_vars

\* C7 as stated: every alias of the table, in any letter case, has the effect
\* of its canonical command from the same state (write, quit, name, and for
\* the writequit family the effect of wq), and none of them produces an
\* "Unknown command" error.
C7_AliasesResolve ==
    [][ (Normalize(command_buffer) \in TableAll /\ EnterStep) =>
        /\ ~(message_is_error' /\ message' = MsgUnknown(Normalize(command_buffer)))
        /\ Normalize(command_buffer) \in TableWrite => execute_command(s_write)
        /\ Normalize(command_buffer) \in TableQuit => execute_command(s_quit)
        /\ Normalize(command_buffer) \in TableWriteQuit => execute_command(s_wq)
        /\ Normalize(command_buffer) \in TableName => execute_command(s_name)
      ]_vars

\* message m contains the text t
Contains(m, t) ==
    \E i \in 1..(Len(m) + 1) :
        i + Len(t) - 1 <= Len(m) /\ SubSeq(m, i, i + Len(t) - 1) = t

\* C8 as stated: "name <arg>" sets filename to <arg> with a non-error status
\* that contains it; "name" alone leaves filename and reports it; neither
\* raises an error or changes the buffer.
C8_NameSetsFilename ==
    [][ (Token(command_buffer) = s_name /\ EnterStep) =>
        /\ ~message_is_error'
        /\ buffer' = buffer
        /\ IF Len(Words(command_buffer)) >= 2
           THEN /\ filename' = Words(command_buffer)[2]
                /\ Contains(message', Words(command_buffer)[2])
           ELSE /\ filename' = filename
                /\ Contains(message', filename) ]_vars

\* the canonical command list of the specification, in its declared order
Canonical == <<s_write, s_quit, s_writequit, s_clear, s_name>>

\* suggest(partial) of the specification: the first canonical command that
\* has the lowercased partial as a prefix, or no suggestion
SuggestCanonical(p) ==
    IF p = <<>> THEN <<>>
    ELSE LET hits == {i \in 1..Len(Canonical) : StartsWith(Canonical[i], Lower(p))}
         IN  IF hits = {} THEN <<>> ELSE Canonical[Min(hits)]

\* C9 as stated: get_suggestion(partial) is the first entry of the canonical
\* list (write, quit, writequit, clear, name) with the lowercased partial as
\* a prefix, or nothing: never an alias, and "name" for "na".
C9_SuggestIsFirstCanonical == suggestion = SuggestCanonical(partial)

\* C10 as stated: Tab in Command mode replaces command_input with
\* suggest(command_input) when that is non-empty and changes nothing
\* otherwise; mode, buffer, cursor and status stay; a second Tab changes
\* nothing more; "na" becomes "name".
C10_TabCompletes ==
    [][ (pc = "getch" /\ command_mode /\ CmdTab) =>
        /\ command_buffer' =
              IF SuggestCanonical(command_buffer) # <<>>
              THEN SuggestCanonical(command_buffer)
              ELSE command_buffer
        /\ SuggestCanonical(command_buffer') \in {<<>>, command_buffer'}
        /\ command_mode'
        /\ BufferAndCursorUnchanged
        /\ message' = message
        /\ message_is_error' = message_is_error ]_vars

\* C11 as stated: command_input is empty in every Edit-mode state, however
\* Edit mode was reached (startup, cancel, write, clear), and it is empty
\* right after every Edit -> Command transition.
C11_CommandInputResetOnModeChange ==
    [][ /\ ~command_mode' => command_buffer' = <<>>
        /\ (~command_mode /\ command_mode') => command_buffer' = <<>> ]_vars

\* the step changes the status message or its error flag
MessageChanged == message' # message \/ message_is_error' # message_is_error

\* C12: every key handled in Edit mode, the ignored ones and F2 included,
\* clears a status whose error flag is unset and leaves an error status and
\* its flag exactly as they were; an error status is only ever replaced by a
\* step of Command mode.
C12_EditKeepsErrorStatus ==
    [][ /\ (pc = "getch" /\ ~command_mode) =>
             IF message_is_error
             THEN message' = message /\ message_is_error'
             ELSE message' = MsgNone /\ ~message_is_error'
        /\ (message_is_error /\ MessageChanged) =>
             (pc = "getch" /\ command_mode) ]_vars

\* Edit mode holds the error status of a failed write, with text in the
\* buffer and the cursor moved: the keys handled next meet an error status
C12_Witness ==
    /\ pc = "getch"
    /\ ~command_mode
    /\ message_is_error
    /\ message = MsgNoFilename
    /\ Branch(command_buffer) = "write"
    /\ cursor_x > 0

\* the step handles Backspace in Edit mode
BackspaceStep ==
    /\ pc = "getch"
    /\ ~command_mode
    /\ EditBackspace

\* line y of the buffer after the step is line y of the buffer before it
\* without its character number x (counted from 1)
CharRemoved(y, x) ==
    /\ Len(Line(buffer', y)) = Len(Line(buffer, y)) - 1
    /\ \A k \in 1..Len(Line(buffer', y)) :
          Line(buffer', y)[k] = Line(buffer, y)[IF k < x THEN k ELSE k + 1]

\* the buffer after the step is the buffer before it with line y appended to
\* line y - 1 and removed
LineJoined(y) ==
    /\ Len(buffer') = Len(buffer) - 1
    /\ Line(buffer', y - 1) = Line(buffer, y - 1) \o Line(buffer, y)
    /\ \A i \in 0..(Len(buffer') - 1) :
          i # y - 1 => Line(buffer', i) = Line(buffer, IF i < y THEN i ELSE i + 1)

\* C13: Backspace in Edit mode removes exactly the character left of the
\* cursor and decrements the column when the column is > 0, leaving the other
\* lines and the row; at column 0 of a row > 0 it appends the line to the
\* previous one, removes it and puts the cursor at (row - 1, old length of the
\* previous line); at (0,0) it changes neither buffer nor cursor.
C13_Backspace ==
    [][ BackspaceStep =>
        IF cursor_x > 0
        THEN /\ Len(buffer') = Len(buffer)
             /\ \A i \in 0..(Len(buffer) - 1) :
                   i # cursor_y => Line(buffer', i) = Line(buffer, i)
             /\ CharRemoved(cursor_y, cursor_x)
             /\ cursor_x' = cursor_x - 1
             /\ cursor_y' = cursor_y
        ELSE IF cursor_y > 0
        THEN /\ LineJoined(cursor_y)
             /\ cursor_y' = cursor_y - 1
             /\ cursor_x' = Len(Line(buffer, cursor_y - 1))
        ELSE BufferAndCursorUnchanged ]_vars

\* a key is awaited in Edit mode with the cursor inside a line, between two
\* different characters: Backspace removes the left one and keeps the right
C13_Witness ==
    /\ pc = "getch"
    /\ ~command_mode
    /\ cursor_x > 0
    /\ cursor_x < Len(Line(buffer, cursor_y))
    /\ Line(buffer, cursor_y)[cursor_x] # Line(buffer, cursor_y)[cursor_x + 1]

\* C14: from every buffer and cursor position the editor reaches, Enter
\* followed at once by Backspace gives back the same lines, the same cursor
\* row and the same cursor column.
C14_EnterBackspaceRoundTrip ==
    (pc = "getch" /\ ~command_mode) =>
        LET r == Enter(buffer, cursor_y, cursor_x)
        IN  Backspace(r.buffer, r.cursor_y, r.cursor_x) =
                Pos(buffer, cursor_y, cursor_x)

\* a key is awaited in Edit mode with the cursor strictly inside a line, so
\* that Enter splits the line into two non-empty parts
C14_Witness ==
    /\ pc = "getch"
    /\ ~command_mode
    /\ cursor_x > 0
    /\ cursor_x < Len(Line(buffer, cursor_y))
    /\ Len(buffer) = 1

\* compute_viewport of the specification
ComputeViewport(cursor_row, offset, viewport_height) ==
    IF cursor_row < offset THEN cursor_row
    ELSE IF cursor_row - offset > viewport_height - 1
    THEN cursor_row - viewport_height + 1
    ELSE offset

C16_ToggleAlternatesModes ==
    /\ []((pc = "getch" /\ command_mode) => ENABLED CmdF2)
    /\ [][ /\ (command_mode' # command_mode) => (EditF2 \/ CmdF2 \/ EnterStep)
           /\ (pc = "getch" /\ ~command_mode /\ EditF2) =>
                /\ command_mode'
                /\ command_buffer' = <<>>
                /\ ~message_is_error => message' = MsgNone
                /\ BufferAndCursorUnchanged
                /\ filename' = filename
           /\ (pc = "getch" /\ command_mode /\ CmdF2) =>
                /\ ~command_mode'
                /\ command_buffer' = <<>>
                /\ message' # MsgNone
                /\ ~message_is_error'
                /\ BufferAndCursorUnchanged
                /\ filename' = filename ]_vars

\* Command mode has just been cancelled, on a buffer with text
C16_Witness ==
    /\ pc = "draw"
    /\ ~command_mode
    /\ message = MsgCancelled
    /\ ~message_is_error
    /\ command_buffer = <<>>
    /\ TotalChars(buffer) > 0

\* C17 as stated: a submitted line is resolved by its first word alone,
\* trimmed and lowercased: the step is the one execute_command makes of that
\* word, so that " WQ " acts as wq, "w extra" writes, and an unknown line
\* reports its first word only.
C17_ResolvesFirstToken ==
    [][ EnterStep => execute_command(Token(command_buffer)) ]_vars

\* C18: submitting clear from any Command-mode state gives the buffer [""],
\* the cursor (0,0), Edit mode and a non-error, non-empty status; the
\* filename stays; and the render that follows sets the offset to 0.
C18_ClearResetsEditor ==
    [][ /\ Submitted("clear") =>
             /\ buffer' = << <<>> >>
             /\ cursor_y' = 0
             /\ cursor_x' = 0
             /\ ~command_mode'
             /\ message' # MsgNone
             /\ ~message_is_error'
             /\ filename' = filename
        /\ (pc = "draw" /\ ~command_mode /\ message = MsgCleared) =>
             offset_y' = 0 ]_vars

\* clear has just been submitted from a scrolled view of a named file: the
\* render that brings the offset back is due
C18_Witness ==
    /\ pc = "draw"
    /\ ~command_mode
    /\ message = MsgCleared
    /\ buffer = << <<>> >>
    /\ offset_y > 0
    /\ filename # None

\* C19: a step of Command mode that changes the buffer or the cursor submits
\* clear: keys typed, Backspace, Tab, F2, unknown commands, write and a failed
\* writequit leave them; and no step of Edit mode changes the filename.
C19_CommandModeFrame ==
    [][ /\ (pc = "getch" /\ command_mode /\ ~BufferAndCursorUnchanged) =>
             Submitted("clear")
        /\ (pc = "getch" /\ ~command_mode) => filename' = filename ]_vars

\* a write has just been submitted in Command mode with text in the buffer
\* and the cursor away from (0,0)
C19_Witness ==
    /\ pc = "draw"
    /\ ~command_mode
    /\ Branch(command_buffer) = "write"
    /\ message = MsgSaved(filename)
    /\ cursor_x > 0
    /\ TotalChars(buffer) > 0

\* C20: in every state, of either mode, the stored suggestion is the one
\* get_suggestion computes from the command line as it stands.
C20_SuggestionNeverStale == current_suggestion = get_suggestion(command_buffer)

\* a key of Command mode has been handled and left the line "w", for which
\* the suggestion is "write"
C20_Witness ==
    /\ pc = "draw"
    /\ command_mode
    /\ command_buffer = s_w
    /\ current_suggestion = s_write

=============================================================================
